---- MODULE Spec2Model ----
(***************************************************************************)
(* Model of src/indic_eval/indic_accelerate.py: the function main(args),   *)
(* run by every worker process of an accelerate process group (or by one   *)
(* process when accelerate is not installed and accelerator is None).      *)
(*                                                                         *)
(* Strings are sequences of tokens (a token is a TLA+ string), so that    *)
(* joining, splitting and the email-shape check are computed, not assumed. *)
(***************************************************************************)
EXTENDS Integers, Sequences, FiniteSets, TLC

\* ------------------------------------------------------------------ bounds
\* Largest process group modelled (ranks 0 .. MaxWorkers-1).
MaxWorkers == 2
\* Documents each task's dataset holds.
DocsPerTask == 2

\* ------------------------------------------------------- program constants
\* random.seed(1234); np.random.seed(1234)
SEED == 1234

VARIABLES
    args,            \* the parsed run configuration main() is called with
    accel,           \* TRUE iff the module-level accelerator is not None
    nprocs,          \* size of the process group
    pc,              \* per worker: position in main()
    err,             \* per worker: the exception that ended main(), "" if none
    args_tasks,      \* per worker: args.tasks (rewritten on the preset path)
    assigned,        \* per worker: local names of main() that are bound
    task_names_list, \* per worker: local task_names_list
    task_dict,       \* per worker: local task_dict (the names resolved)
    requests,        \* per worker: the documents in request order
    random_state,    \* per worker: state of the stdlib generator
    np_state,        \* per worker: state of the numpy generator
    build_rng,       \* per worker: generator state seen by the request builder
    arrived,         \* per worker: number of barriers entered so far
    calls,           \* per worker: the collaborator calls made, in order
    tracker,         \* per worker: contributions logged into evaluation_tracker
    final_dict,      \* per worker: local final_dict
    push_arg,        \* per worker: argument of push_to_leaderboard
    retval,          \* per worker: what main() returned
    warnings,        \* per worker: partial-numbers warnings emitted
    artifacts        \* output directories that hold a persisted results artifact

vars == << args, accel, nprocs, pc, err, args_tasks, assigned, task_names_list,
           task_dict, requests, random_state, np_state, build_rng, arrived,
           calls, tracker, final_dict, push_arg, retval, warnings, artifacts >>

Procs == 0 .. (nprocs - 1)

\* ----------------------------------------------------------- string helpers
RECURSIVE SplitOn(_, _)
\* str.split(sep): the fields between occurrences of the token sep.
SplitOn(s, sep) ==
    IF \A i \in 1..Len(s) : s[i] # sep
    THEN << s >>
    ELSE LET k == CHOOSE i \in 1..Len(s) :
                     s[i] = sep /\ \A j \in 1..(i-1) : s[j] # sep
         IN  << SubSeq(s, 1, k-1) >> \o SplitOn(SubSeq(s, k+1, Len(s)), sep)

RECURSIVE JoinWith(_, _)
\* sep.join(parts)
JoinWith(sep, parts) ==
    IF Len(parts) = 0 THEN << >>
    ELSE IF Len(parts) = 1 THEN parts[1]
    ELSE parts[1] \o << sep >> \o JoinWith(sep, Tail(parts))

\* Number of occurrences of the call name c in the call log s.
Count(s, c) == Cardinality({ i \in 1..Len(s) : s[i] = c })

\* Position of the first occurrence of c in s, 0 when there is none.
FirstIndex(s, c) ==
    IF \E i \in 1..Len(s) : s[i] = c
    THEN CHOOSE i \in 1..Len(s) : s[i] = c /\ \A j \in 1..(i-1) : s[j] # c
    ELSE 0

\* ------------------------------------------------------------------ inputs
\* The reserved task selector of the leaderboard preset (spelt as the code does).
LeaderboardSentinel == << "indic_llm_leadeboard" >>

\* A task selector that is not the preset: "indiceval|Boolq:hindi|5|0".
PlainSelector == << "indiceval", "|", "Boolq", ":", "hindi", "|", "5", "|", "0" >>

SupportedLanguages ==
    << "kannada", "hindi", "tamil", "telugu", "gujarati", "marathi",
       "malayalam", "english" >>

\* Languages a caller may pass: the supported ones, one the program does not
\* know and a supported one in the wrong case.
Languages ==
    { SupportedLanguages[i] : i \in 1..Len(SupportedLanguages) }
        \cup { "bengali", "Hindi" }

Benchmarks == << "ARC-Easy", "ARC-Challenge", "Hellaswag", "Boolq", "MMLU" >>

ValidEmail   == << "user", "@", "example", ".", "com" >>
NoAtEmail    == << "user", "example", ".", "com" >>
NoDotEmail   == << "user", "@", "example" >>
NoEmail      == << >>
Emails == { ValidEmail, NoAtEmail, NoDotEmail, NoEmail }

\* States a generator can be in before the program seeds it.
UnseededStates == { 0, 1 }

\* --max_samples: 0 stands for "not given" (None); the other value is a cap
\* below the number of documents of a task.
SampleCaps == { 0, DocsPerTask - 1 }

\* The run configurations checked. args.language is read on the preset branch
\* only (lines 90-95), so the plain selector is run with one language. The
\* options read from line 136 on (output_dir, pu, reuse_existing,
\* delta_weights, adapter_weights) vary with the plain selector; a call with
\* the preset selector ends by line 101 (PresetEndsEarly), so there they are
\* held at their defaults. args.pu is read only when output_dir is given.
Defaults(c) ==
    /\ c.output_dir = << >>
    /\ ~c.reuse_existing
    /\ ~c.delta_weights
    /\ ~c.adapter_weights

RunConfigs ==
    { c \in [ tasks              : { LeaderboardSentinel, PlainSelector },
              language           : Languages,
              push_to_leaderboard: Emails,
              output_dir         : { << >>, << "/tmp/out" >> },
              has_pu             : BOOLEAN,
              reuse_existing     : BOOLEAN,
              delta_weights      : BOOLEAN,
              adapter_weights    : BOOLEAN,
              max_samples        : SampleCaps ] :
        /\ c.tasks = PlainSelector => c.language = "hindi"
        /\ c.tasks = LeaderboardSentinel => Defaults(c)
        /\ c.output_dir = << >> => ~c.has_pu }

\* Python truthiness of a string / sequence value.
Truthy(s) == Len(s) > 0

\* ------------------------------------------------------- collaborators
\* indic_eval.utils.is_valid_email: the basic email-shape check: one "@"
\* with a local part before it and a domain after it that contains a dot.
is_valid_email(e) ==
    \E i \in 2..Len(e) :
        /\ e[i] = "@"
        /\ \A j \in 1..Len(e) : e[j] = "@" => j = i
        /\ \E k \in (i+2)..(Len(e)-1) : e[k] = "."

\* indic_eval.tasks.registry.taskinfo_selector: "suite|task|few_shot|truncate"
\* entries, comma separated; the task names are "suite|task".
taskinfo_selector(selector) ==
    LET entries == SplitOn(selector, ",")
    IN  [ i \in 1..Len(entries) |->
            LET f == SplitOn(entries[i], "|")
            IN  f[1] \o << "|" >> \o f[2] ]

\* The documents of a task in the order the request builder emits them: a
\* shuffle driven by the generator state it finds, then the sample cap.
Shuffle(r) ==
    [ i \in 1..DocsPerTask |-> ((i - 1 + r) % DocsPerTask) + 1 ]

BuildRequests(r, cap) ==
    SubSeq(Shuffle(r), 1, IF cap # 0 /\ cap < DocsPerTask THEN cap ELSE DocsPerTask)

\* indic_eval.evaluator.evaluate: returns the tracker it was given, with the
\* model responses logged into it.
evaluate(t) == Append(t, "responses")

\* ------------------------------------------------------------ coordinator
\* Variant: without an accelerator the test of line 136 is false.
IsMainProcessNoneFalsy(w) == IF accel THEN w = 0 ELSE FALSE

\* accelerator.is_main_process if accelerator is not None else nullcontext()
\* (a nullcontext object is truthy).
IsMainProcess(w) == IF accel THEN w = 0 ELSE TRUE

\* A worker blocked in a barrier leaves it once every member of the group has
\* entered that barrier (barriers are matched in call order).
BarrierOpen(w) == \A v \in Procs : arrived[v] >= arrived[w]

\* What a call of main() has returned: nothing yet, None (falling off the end
\* of the function) or a dict.
NotReturned == [ kind |-> "NotReturned", value |-> << >> ]
ReturnedNone == [ kind |-> "None", value |-> << >> ]
ReturnedDict(d) == [ kind |-> "dict", value |-> d ]

\* ------------------------------------------------------------------- Init
Init ==
    /\ args \in RunConfigs
    /\ accel \in BOOLEAN
    /\ nprocs \in 1..MaxWorkers
    /\ (~accel => nprocs = 1)
    /\ pc = [ w \in Procs |-> "start" ]
    /\ err = [ w \in Procs |-> "" ]
    /\ args_tasks = [ w \in Procs |-> args.tasks ]
    /\ assigned = [ w \in Procs |-> { } ]
    /\ task_names_list = [ w \in Procs |-> << >> ]
    /\ task_dict = [ w \in Procs |-> << >> ]
    /\ requests = [ w \in Procs |-> << >> ]
    /\ random_state \in [ Procs -> UnseededStates ]
    /\ np_state = random_state
    /\ build_rng = [ w \in Procs |-> << >> ]
    /\ arrived = [ w \in Procs |-> 0 ]
    /\ calls = [ w \in Procs |-> << >> ]
    /\ tracker = [ w \in Procs |-> << >> ]
    /\ final_dict = [ w \in Procs |-> << >> ]
    /\ push_arg = [ w \in Procs |-> << >> ]
    /\ retval = [ w \in Procs |-> NotReturned ]
    /\ warnings = [ w \in Procs |-> 0 ]
    /\ artifacts = { }

\* ---------------------------------------------------------------- helpers
Goto(w, label) == pc' = [ pc EXCEPT ![w] = label ]

\* An exception leaves main(): nothing after the raising statement runs (the
\* function has no try/finally and the scoped regions have no exit handler).
Raise(w, e) ==
    /\ pc' = [ pc EXCEPT ![w] = "failed" ]
    /\ err' = [ err EXCEPT ![w] = e ]

Call(w, name) == calls' = [ calls EXCEPT ![w] = Append(@, name) ]

Log(w, entry) == tracker' = [ tracker EXCEPT ![w] = Append(@, entry) ]

inputVars == << args, accel, nprocs >>
rngVars == << random_state, np_state, build_rng >>
taskVars == << args_tasks, assigned, task_names_list, task_dict, requests >>
endVars == << final_dict, push_arg, retval, artifacts >>

\* ------------------------------------------------------ lines 58-62
\* EnvConfig, the EvaluationTracker of the run, log_args_info.
Start(w) ==
    /\ pc[w] = "start"
    /\ calls' = [ calls EXCEPT ![w] = @ \o << "EvaluationTracker", "log_args_info" >> ]
    /\ Log(w, "args_info")
    /\ Goto(w, "max_samples")
    /\ UNCHANGED << inputVars, rngVars, taskVars, endVars, err, arrived, warnings >>

\* ------------------------------------------------------ lines 64-76
\* The partial-numbers warning, then the text art, test_all_gather and
\* create_model_config.
\* Variant: the warning is emitted whether or not a cap is set.
WarnMaxSamplesAlways(w) ==
    /\ pc[w] = "max_samples"
    /\ warnings' = [ warnings EXCEPT ![w] = @ + 1 ]
    /\ Goto(w, "model_first")
    /\ UNCHANGED << inputVars, rngVars, taskVars, endVars, err, arrived, calls, tracker >>

\* The statement as written.
WarnMaxSamples(w) ==
    /\ pc[w] = "max_samples"
    /\ warnings' = [ warnings EXCEPT ![w] = IF args.max_samples # 0 THEN @ + 1 ELSE @ ]
    /\ Goto(w, "model_first")
    /\ UNCHANGED << inputVars, rngVars, taskVars, endVars, err, arrived, calls, tracker >>

\* ------------------------------------------------------ line 79
\* Entering accelerator.main_process_first(): every worker but the main one
\* enters a barrier; without an accelerator the region is a nullcontext.
ModelFirstEnter(w) ==
    /\ pc[w] = "model_first"
    /\ IF accel /\ ~IsMainProcess(w)
       THEN /\ arrived' = [ arrived EXCEPT ![w] = @ + 1 ]
            /\ Goto(w, "model_first_wait")
       ELSE /\ UNCHANGED arrived
            /\ Goto(w, "load_model")
    /\ UNCHANGED << inputVars, rngVars, taskVars, endVars, err, calls, tracker, warnings >>

\* ------------------------------------------------------ lines 80-81
LoadModel(w) ==
    /\ pc[w] = "load_model"
    /\ Call(w, "load_model")
    /\ Log(w, "model_info")
    /\ assigned' = [ assigned EXCEPT ![w] = @ \cup { "model", "model_info" } ]
    /\ Goto(w, "model_first_exit")
    /\ UNCHANGED << inputVars, rngVars, endVars, err, arrived, warnings,
                    args_tasks, task_names_list, task_dict, requests >>

\* ------------------------------------------------------ line 79 (exit)
\* Leaving the region: the main worker enters the barrier the others wait in.
ModelFirstExit(w) ==
    /\ pc[w] = "model_first_exit"
    /\ IF accel /\ IsMainProcess(w)
       THEN /\ arrived' = [ arrived EXCEPT ![w] = @ + 1 ]
            /\ Goto(w, "model_first_exit_wait")
       ELSE /\ UNCHANGED arrived
            /\ Goto(w, "tasks_first")
    /\ UNCHANGED << inputVars, rngVars, taskVars, endVars, err, calls, tracker, warnings >>

\* ------------------------------------------------------ line 84
\* Variant: the region is entered without waiting (a nullcontext).
TasksFirstEnterNoWait(w) ==
    /\ pc[w] = "tasks_first"
    /\ Goto(w, "select_tasks")
    /\ UNCHANGED << inputVars, rngVars, taskVars, endVars, err, arrived, calls,
                    tracker, warnings >>

\* The entry as written.
TasksFirstEnter(w) ==
    /\ pc[w] = "tasks_first"
    /\ IF accel /\ ~IsMainProcess(w)
       THEN /\ arrived' = [ arrived EXCEPT ![w] = @ + 1 ]
            /\ Goto(w, "tasks_first_wait")
       ELSE /\ UNCHANGED arrived
            /\ Goto(w, "select_tasks")
    /\ UNCHANGED << inputVars, rngVars, taskVars, endVars, err, calls, tracker, warnings >>

\* ------------------------------------------------------ line 93
\* ",".join(f"indiceval|{benchmark}:{args.language}|5|0" for benchmark in [...])
\* Variant: the selector of the commented-out line 92, whose ARC-Challenge
\* entry ends in |10|0.
LeaderboardTasksTen(language) ==
    JoinWith(",", [ i \in 1..Len(Benchmarks) |->
        << "indiceval", "|", Benchmarks[i], ":", language, "|",
           IF Benchmarks[i] = "ARC-Challenge" THEN "10" ELSE "5", "|", "0" >> ])

\* The selector line 93 builds.
LeaderboardTasks(language) ==
    JoinWith(",", [ i \in 1..Len(Benchmarks) |->
        << "indiceval", "|", Benchmarks[i], ":", language, "|", "5", "|", "0" >> ])

\* args.language in ["kannada", ..., "english"]
LanguageSupported(language) ==
    \E i \in 1..Len(SupportedLanguages) : SupportedLanguages[i] = language

\* ------------------------------------------------------ lines 85-98
\* The preset branch checks the email, then the language, and rewrites
\* args.tasks; it binds neither task_names_list nor few_shots_dict. The other
\* branch binds both from taskinfo_selector and leaves args.tasks alone.
\* Variant: the preset branch without the language check of line 90.
SelectTasksNoLanguageCheck(w) ==
    /\ pc[w] = "select_tasks"
    /\ IF args_tasks[w] = LeaderboardSentinel
       THEN IF ~is_valid_email(args.push_to_leaderboard)
            THEN /\ Raise(w, "ValueError: email")
                 /\ UNCHANGED << calls, taskVars >>
            ELSE /\ args_tasks' = [ args_tasks EXCEPT ![w] = LeaderboardTasks(args.language) ]
                 /\ Goto(w, "get_task_dict")
                 /\ UNCHANGED << err, calls, assigned, task_names_list, task_dict, requests >>
       ELSE /\ Call(w, "taskinfo_selector")
            /\ task_names_list' = [ task_names_list EXCEPT ![w] = taskinfo_selector(args_tasks[w]) ]
            /\ assigned' = [ assigned EXCEPT ![w] = @ \cup { "task_names_list", "few_shots_dict" } ]
            /\ Goto(w, "get_task_dict")
            /\ UNCHANGED << err, args_tasks, task_dict, requests >>
    /\ UNCHANGED << inputVars, rngVars, endVars, arrived, tracker, warnings >>

\* Variant: the preset branch rewriting args.tasks ahead of the language check.
SelectTasksRewriteFirst(w) ==
    /\ pc[w] = "select_tasks"
    /\ IF args_tasks[w] = LeaderboardSentinel
       THEN IF ~is_valid_email(args.push_to_leaderboard)
            THEN /\ Raise(w, "ValueError: email")
                 /\ UNCHANGED << calls, taskVars >>
            ELSE /\ args_tasks' = [ args_tasks EXCEPT ![w] = LeaderboardTasks(args.language) ]
                 /\ IF LanguageSupported(args.language)
                    THEN Goto(w, "get_task_dict") /\ UNCHANGED err
                    ELSE Raise(w, "ValueError: language")
                 /\ UNCHANGED << calls, assigned, task_names_list, task_dict, requests >>
       ELSE /\ Call(w, "taskinfo_selector")
            /\ task_names_list' = [ task_names_list EXCEPT ![w] = taskinfo_selector(args_tasks[w]) ]
            /\ assigned' = [ assigned EXCEPT ![w] = @ \cup { "task_names_list", "few_shots_dict" } ]
            /\ Goto(w, "get_task_dict")
            /\ UNCHANGED << err, args_tasks, task_dict, requests >>
    /\ UNCHANGED << inputVars, rngVars, endVars, arrived, tracker, warnings >>

\* The branch as written.
SelectTasks(w) ==
    /\ pc[w] = "select_tasks"
    /\ IF args_tasks[w] = LeaderboardSentinel
       THEN IF ~is_valid_email(args.push_to_leaderboard)
            THEN /\ Raise(w, "ValueError: email")
                 /\ UNCHANGED << calls, taskVars >>
            ELSE IF LanguageSupported(args.language)
            THEN /\ args_tasks' = [ args_tasks EXCEPT ![w] = LeaderboardTasks(args.language) ]
                 /\ Goto(w, "get_task_dict")
                 /\ UNCHANGED << err, calls, assigned, task_names_list, task_dict, requests >>
            ELSE /\ Raise(w, "ValueError: language")
                 /\ UNCHANGED << calls, taskVars >>
       ELSE /\ Call(w, "taskinfo_selector")
            /\ task_names_list' = [ task_names_list EXCEPT ![w] = taskinfo_selector(args_tasks[w]) ]
            /\ assigned' = [ assigned EXCEPT ![w] = @ \cup { "task_names_list", "few_shots_dict" } ]
            /\ Goto(w, "get_task_dict")
            /\ UNCHANGED << err, args_tasks, task_dict, requests >>
    /\ UNCHANGED << inputVars, rngVars, endVars, arrived, tracker, warnings >>

\* ------------------------------------------------------ lines 99-101
\* Registry(...).get_task_dict(task_names_list, ...): reading a local that no
\* branch has bound raises UnboundLocalError before the call is made.
GetTaskDict(w) ==
    /\ pc[w] = "get_task_dict"
    /\ IF "task_names_list" \in assigned[w]
       THEN /\ Call(w, "get_task_dict")
            /\ task_dict' = [ task_dict EXCEPT ![w] = task_names_list[w] ]
            /\ assigned' = [ assigned EXCEPT ![w] = @ \cup { "task_dict" } ]
            /\ Goto(w, "load_datasets")
            /\ UNCHANGED err
       ELSE /\ Raise(w, "UnboundLocalError: task_names_list")
            /\ UNCHANGED << calls, task_dict, assigned >>
    /\ UNCHANGED << inputVars, rngVars, endVars, arrived, tracker, warnings,
                    args_tasks, task_names_list, requests >>

\* ------------------------------------------------------ lines 102-104
LoadDatasets(w) ==
    /\ pc[w] = "load_datasets"
    /\ Call(w, "load_datasets")
    /\ Log(w, "task_config")
    /\ Goto(w, "create_requests")
    /\ UNCHANGED << inputVars, rngVars, taskVars, endVars, err, arrived, warnings >>

\* ------------------------------------------------------ lines 106-116
\* create_requests_from_tasks runs with the generators as it finds them.
CreateRequests(w) ==
    /\ pc[w] = "create_requests"
    /\ Call(w, "create_requests_from_tasks")
    /\ Log(w, "num_docs")
    /\ build_rng' = [ build_rng EXCEPT ![w] = << random_state[w], np_state[w] >> ]
    /\ requests' = [ requests EXCEPT ![w] = BuildRequests(random_state[w], args.max_samples) ]
    /\ assigned' = [ assigned EXCEPT ![w] = @ \cup { "requests", "docs" } ]
    /\ Goto(w, "tasks_first_exit")
    /\ UNCHANGED << inputVars, random_state, np_state, endVars, err, arrived,
                    warnings, args_tasks, task_names_list, task_dict >>

\* ------------------------------------------------------ line 84 (exit)
TasksFirstExit(w) ==
    /\ pc[w] = "tasks_first_exit"
    /\ IF accel /\ IsMainProcess(w)
       THEN /\ arrived' = [ arrived EXCEPT ![w] = @ + 1 ]
            /\ Goto(w, "tasks_first_exit_wait")
       ELSE /\ UNCHANGED arrived
            /\ Goto(w, "set_seeds")
    /\ UNCHANGED << inputVars, rngVars, taskVars, endVars, err, calls, tracker, warnings >>

\* ------------------------------------------------------ lines 119-121
\* random.seed(1234); np.random.seed(1234)
\* Variant: the seed depends on the rank of the worker.
SetSeedsPerRank(w) ==
    /\ pc[w] = "set_seeds"
    /\ random_state' = [ random_state EXCEPT ![w] = SEED + w ]
    /\ np_state' = [ np_state EXCEPT ![w] = SEED + w ]
    /\ Goto(w, "wait_for_everyone")
    /\ UNCHANGED << inputVars, build_rng, taskVars, endVars, err, arrived,
                    calls, tracker, warnings >>

\* Variant: only the stdlib generator is seeded.
SetSeedsStdlibOnly(w) ==
    /\ pc[w] = "set_seeds"
    /\ random_state' = [ random_state EXCEPT ![w] = SEED ]
    /\ Goto(w, "wait_for_everyone")
    /\ UNCHANGED << inputVars, np_state, build_rng, taskVars, endVars, err, arrived,
                    calls, tracker, warnings >>

\* Both generators are seeded.
SetSeeds(w) ==
    /\ pc[w] = "set_seeds"
    /\ random_state' = [ random_state EXCEPT ![w] = SEED ]
    /\ np_state' = [ np_state EXCEPT ![w] = SEED ]
    /\ Goto(w, "wait_for_everyone")
    /\ UNCHANGED << inputVars, build_rng, taskVars, endVars, err, arrived,
                    calls, tracker, warnings >>

\* ------------------------------------------------------ lines 122-123
\* if accelerator is not None: accelerator.wait_for_everyone()
\* Variant: no barrier after the seeding.
WaitForEveryoneSkipped(w) ==
    /\ pc[w] = "wait_for_everyone"
    /\ Goto(w, "evaluate")
    /\ UNCHANGED << inputVars, rngVars, taskVars, endVars, err, arrived, calls,
                    tracker, warnings >>

\* The barrier as written.
WaitForEveryone(w) ==
    /\ pc[w] = "wait_for_everyone"
    /\ IF accel
       THEN /\ arrived' = [ arrived EXCEPT ![w] = @ + 1 ]
            /\ Goto(w, "seeds_wait")
       ELSE /\ UNCHANGED arrived
            /\ Goto(w, "evaluate")
    /\ UNCHANGED << inputVars, rngVars, taskVars, endVars, err, calls, tracker, warnings >>

\* Where a worker continues once the barrier it is blocked in opens.
AfterBarrier(label) ==
    CASE label = "model_first_wait"      -> "load_model"
      [] label = "model_first_exit_wait" -> "tasks_first"
      [] label = "tasks_first_wait"      -> "select_tasks"
      [] label = "tasks_first_exit_wait" -> "set_seeds"
      [] label = "seeds_wait"            -> "evaluate"

BarrierLabels ==
    { "model_first_wait", "model_first_exit_wait", "tasks_first_wait",
      "tasks_first_exit_wait", "seeds_wait" }

\* ------------------------------------------------------ lines 79, 84, 123
\* Return from accelerator.wait_for_everyone().
BarrierRelease(w) ==
    /\ pc[w] \in BarrierLabels
    /\ BarrierOpen(w)
    /\ Goto(w, AfterBarrier(pc[w]))
    /\ UNCHANGED << inputVars, rngVars, taskVars, endVars, err, arrived, calls,
                    tracker, warnings >>

\* ------------------------------------------------------ line 51
\* InitProcessGroupKwargs(timeout=timedelta(seconds=3000)): a wait in a
\* barrier ends with an error once the timeout has passed. Time is not
\* modelled: a worker that is running is taken to reach the barrier within
\* the timeout, so the timeout ends exactly the waits for a member whose call
\* of main() is over and who will therefore never enter the barrier.
BarrierTimeoutNever(w) ==
    /\ FALSE
    /\ UNCHANGED vars

BarrierTimeout(w) ==
    /\ pc[w] \in BarrierLabels
    /\ \E v \in Procs : arrived[v] < arrived[w] /\ pc[v] \in { "done", "failed" }
    /\ Raise(w, "TimeoutError: barrier")
    /\ UNCHANGED << inputVars, rngVars, taskVars, endVars, arrived, calls,
                    tracker, warnings >>

\* ------------------------------------------------------ lines 125-134
\* evaluation_tracker = evaluate(..., evaluation_tracker=evaluation_tracker)
\* Variant: a new tracker is handed to evaluate instead of the run's one.
EvaluateFreshTracker(w) ==
    /\ pc[w] = "evaluate"
    /\ Call(w, "evaluate")
    /\ tracker' = [ tracker EXCEPT ![w] = evaluate(<< >>) ]
    /\ Goto(w, "is_main_process")
    /\ UNCHANGED << inputVars, rngVars, taskVars, endVars, err, arrived, warnings >>

\* The statement as written.
Evaluate(w) ==
    /\ pc[w] = "evaluate"
    /\ Call(w, "evaluate")
    /\ tracker' = [ tracker EXCEPT ![w] = evaluate(tracker[w]) ]
    /\ Goto(w, "is_main_process")
    /\ UNCHANGED << inputVars, rngVars, taskVars, endVars, err, arrived, warnings >>

\* ------------------------------------------------------ line 136
\* Only the main worker runs the rest of the function; any other worker falls
\* off the end of main(), which returns None.
\* Variant: every worker runs the finalization.
CheckMainProcessAll(w) ==
    /\ pc[w] = "is_main_process"
    /\ Goto(w, "aggregate")
    /\ UNCHANGED << inputVars, rngVars, taskVars, endVars, err, arrived, calls,
                    tracker, warnings >>

\* The test as written.
CheckMainProcess(w) ==
    /\ pc[w] = "is_main_process"
    /\ IF IsMainProcess(w)
       THEN /\ Goto(w, "aggregate")
            /\ UNCHANGED retval
       ELSE /\ Goto(w, "done")
            /\ retval' = [ retval EXCEPT ![w] = ReturnedNone ]
    /\ UNCHANGED << inputVars, rngVars, taskVars, final_dict, push_arg, artifacts,
                    err, arrived, calls, tracker, warnings >>

\* ------------------------------------------------------ lines 138-140
Aggregate(w) ==
    /\ pc[w] = "aggregate"
    /\ calls' = [ calls EXCEPT ![w] =
                    @ \o << "log_end_time", "metrics_aggregate", "details_aggregate" >> ]
    /\ tracker' = [ tracker EXCEPT ![w] = @ \o << "end_time", "metrics", "details" >> ]
    /\ Goto(w, "save")
    /\ UNCHANGED << inputVars, rngVars, taskVars, endVars, err, arrived, warnings >>

\* ------------------------------------------------------ lines 142-145
\* The arguments of save are evaluated before the call: args.pu raises
\* AttributeError when the configuration object has no attribute "pu".
Save(w) ==
    /\ pc[w] = "save"
    /\ IF ~Truthy(args.output_dir)
       THEN /\ Goto(w, "generate_final_dict")
            /\ UNCHANGED << err, calls, artifacts >>
       ELSE IF args.has_pu
       THEN /\ Call(w, "save")
            /\ artifacts' = artifacts \cup { args.output_dir }
            /\ Goto(w, "generate_final_dict")
            /\ UNCHANGED err
       ELSE /\ Raise(w, "AttributeError: pu")
            /\ UNCHANGED << calls, artifacts >>
    /\ UNCHANGED << inputVars, rngVars, taskVars, final_dict, push_arg, retval,
                    arrived, tracker, warnings >>

\* ------------------------------------------------------ line 147
GenerateFinalDict(w) ==
    /\ pc[w] = "generate_final_dict"
    /\ Call(w, "generate_final_dict")
    /\ final_dict' = [ final_dict EXCEPT ![w] = tracker[w] ]
    /\ assigned' = [ assigned EXCEPT ![w] = @ \cup { "final_dict" } ]
    /\ Goto(w, "clean_up")
    /\ UNCHANGED << inputVars, rngVars, push_arg, retval, artifacts, err, arrived,
                    tracker, warnings, args_tasks, task_names_list, task_dict, requests >>

\* ------------------------------------------------------ lines 151-159
\* Variant: both directories removed whatever the weight mode.
CleanUpAlways(w) ==
    /\ pc[w] = "clean_up"
    /\ calls' = [ calls EXCEPT ![w] =
                    @ \o << "rmtree delta-applied", "rmtree adapter-applied" >> ]
    /\ Goto(w, "push_to_leaderboard")
    /\ UNCHANGED << inputVars, rngVars, taskVars, endVars, err, arrived, tracker, warnings >>

\* shutil.rmtree of the directory of each weight mode that is set.
CleanUp(w) ==
    /\ pc[w] = "clean_up"
    /\ calls' = [ calls EXCEPT ![w] =
                    @ \o (IF args.delta_weights THEN << "rmtree delta-applied" >> ELSE << >>)
                      \o (IF args.adapter_weights THEN << "rmtree adapter-applied" >> ELSE << >>) ]
    /\ Goto(w, "push_to_leaderboard")
    /\ UNCHANGED << inputVars, rngVars, taskVars, endVars, err, arrived, tracker, warnings >>

\* ------------------------------------------------------ lines 161-167
\* The results table is printed, then the push is made when a contact email
\* is given and has the shape of an email; a given email of another shape
\* raises.
\* Variant: the push without the second email check of line 164.
PushToLeaderboardUnchecked(w) ==
    /\ pc[w] = "push_to_leaderboard"
    /\ IF Truthy(args.push_to_leaderboard)
       THEN /\ Call(w, "push_to_leaderboard")
            /\ push_arg' = [ push_arg EXCEPT ![w] = final_dict[w] ]
            /\ Goto(w, "model_cleanup")
       ELSE /\ Goto(w, "model_cleanup")
            /\ UNCHANGED << calls, push_arg >>
    /\ UNCHANGED << inputVars, rngVars, taskVars, final_dict, retval, artifacts,
                    err, arrived, tracker, warnings >>

\* The stage as written.
PushToLeaderboard(w) ==
    /\ pc[w] = "push_to_leaderboard"
    /\ IF Truthy(args.push_to_leaderboard)
       THEN IF is_valid_email(args.push_to_leaderboard)
            THEN /\ Call(w, "push_to_leaderboard")
                 /\ push_arg' = [ push_arg EXCEPT ![w] = final_dict[w] ]
                 /\ Goto(w, "model_cleanup")
                 /\ UNCHANGED err
            ELSE /\ Raise(w, "ValueError: email")
                 /\ UNCHANGED << calls, push_arg >>
       ELSE /\ Goto(w, "model_cleanup")
            /\ UNCHANGED << err, calls, push_arg >>
    /\ UNCHANGED << inputVars, rngVars, taskVars, final_dict, retval, artifacts,
                    arrived, tracker, warnings >>

\* ------------------------------------------------------ lines 170-171
\* if not args.reuse_existing: model.cleanup()
\* Variant: cleanup whatever --reuse_existing says.
ModelCleanupAlways(w) ==
    /\ pc[w] = "model_cleanup"
    /\ Call(w, "model.cleanup")
    /\ Goto(w, "return")
    /\ UNCHANGED << inputVars, rngVars, taskVars, endVars, err, arrived, tracker, warnings >>

\* The statement as written.
ModelCleanup(w) ==
    /\ pc[w] = "model_cleanup"
    /\ IF ~args.reuse_existing
       THEN Call(w, "model.cleanup")
       ELSE UNCHANGED calls
    /\ Goto(w, "return")
    /\ UNCHANGED << inputVars, rngVars, taskVars, endVars, err, arrived, tracker, warnings >>

\* ------------------------------------------------------ line 173
\* return final_dict
\* Variant: main() ends without returning final_dict.
ReturnNothing(w) ==
    /\ pc[w] = "return"
    /\ retval' = [ retval EXCEPT ![w] = ReturnedNone ]
    /\ Goto(w, "done")
    /\ UNCHANGED << inputVars, rngVars, taskVars, final_dict, push_arg, artifacts,
                    err, arrived, calls, tracker, warnings >>

\* The statement as written.
Return(w) ==
    /\ pc[w] = "return"
    /\ retval' = [ retval EXCEPT ![w] = ReturnedDict(final_dict[w]) ]
    /\ Goto(w, "done")
    /\ UNCHANGED << inputVars, rngVars, taskVars, final_dict, push_arg, artifacts,
                    err, arrived, calls, tracker, warnings >>

\* ------------------------------------------------------------------- Next
Next ==
    \/ \E w \in Procs : Start(w)
    \/ \E w \in Procs : WarnMaxSamples(w)
    \/ \E w \in Procs : ModelFirstEnter(w)
    \/ \E w \in Procs : LoadModel(w)
    \/ \E w \in Procs : ModelFirstExit(w)
    \/ \E w \in Procs : TasksFirstEnter(w)
    \/ \E w \in Procs : SelectTasks(w)
    \/ \E w \in Procs : GetTaskDict(w)
    \/ \E w \in Procs : LoadDatasets(w)
    \/ \E w \in Procs : CreateRequests(w)
    \/ \E w \in Procs : TasksFirstExit(w)
    \/ \E w \in Procs : SetSeeds(w)
    \/ \E w \in Procs : WaitForEveryone(w)
    \/ \E w \in Procs : BarrierRelease(w)
    \/ \E w \in Procs : BarrierTimeout(w)
    \/ \E w \in Procs : Evaluate(w)
    \/ \E w \in Procs : CheckMainProcess(w)
    \/ \E w \in Procs : Aggregate(w)
    \/ \E w \in Procs : Save(w)
    \/ \E w \in Procs : GenerateFinalDict(w)
    \/ \E w \in Procs : CleanUp(w)
    \/ \E w \in Procs : PushToLeaderboard(w)
    \/ \E w \in Procs : ModelCleanup(w)
    \/ \E w \in Procs : Return(w)

Spec == Init /\ [][Next]_vars

\* The steps of worker w.
Step(w) ==
    /\ w \in Procs
    /\ \/ Start(w) \/ WarnMaxSamples(w) \/ ModelFirstEnter(w) \/ LoadModel(w)
       \/ ModelFirstExit(w) \/ TasksFirstEnter(w) \/ SelectTasks(w)
       \/ GetTaskDict(w) \/ LoadDatasets(w) \/ CreateRequests(w)
       \/ TasksFirstExit(w) \/ SetSeeds(w) \/ WaitForEveryone(w)
       \/ BarrierRelease(w) \/ BarrierTimeout(w) \/ Evaluate(w)
       \/ CheckMainProcess(w) \/ Aggregate(w) \/ Save(w) \/ GenerateFinalDict(w)
       \/ CleanUp(w) \/ PushToLeaderboard(w) \/ ModelCleanup(w) \/ Return(w)

\* Every worker is a process of its own that keeps running while it has a
\* step to take: a call of main() does not stop between two statements, a
\* barrier that is open lets the worker go, and the timeout of line 51 ends a
\* wait that nothing else ends.
Fairness == \A w \in 0..(MaxWorkers - 1) : WF_vars(Step(w))

\* The runs the progress properties are checked on: whether and where a call
\* of main() ends depends on the selector, the language, the email and on
\* output_dir / pu; the options that only choose which calls the
\* finalization makes, the sample cap and the generator states are held fixed.
LiveInit ==
    /\ Init
    /\ args.language \in { "hindi", "bengali" }
    /\ ~args.delta_weights /\ ~args.adapter_weights
    /\ args.max_samples = 0
    /\ \A w \in Procs : random_state[w] = 0

FairSpec == LiveInit /\ [][Next]_vars /\ Fairness

\* A call with the preset selector never gets past line 101.
PresetEndsEarly ==
    \A w \in Procs :
        args.tasks = LeaderboardSentinel =>
            pc[w] \notin { "load_datasets", "create_requests", "tasks_first_exit",
                           "tasks_first_exit_wait", "set_seeds", "wait_for_everyone",
                           "seeds_wait", "evaluate", "is_main_process", "aggregate",
                           "save", "generate_final_dict", "clean_up",
                           "push_to_leaderboard", "model_cleanup", "return", "done" }

\* ------------------------------------------------------------ vocabulary
\* Positions of main() up to and including the branch of lines 85-98.
UpToSelect ==
    { "start", "max_samples", "model_first", "model_first_wait", "load_model",
      "model_first_exit", "model_first_exit_wait", "tasks_first",
      "tasks_first_wait", "select_tasks" }

\* Worker w has run the branch of lines 85-98 (a worker whose wait at the
\* entry of the region timed out has not).
PastSelect(w) == pc[w] \notin UpToSelect /\ err[w] # "TimeoutError: barrier"

ValidationErrors == { "ValueError: email", "ValueError: language" }

Called(w, name) == Count(calls[w], name) > 0

PresetRun == args.tasks = LeaderboardSentinel

MultiWorker == accel /\ nprocs > 1

\* The calls of the stage of lines 136-173.
FinalizationCalls ==
    { "log_end_time", "metrics_aggregate", "details_aggregate", "save",
      "generate_final_dict", "rmtree delta-applied", "rmtree adapter-applied",
      "push_to_leaderboard", "model.cleanup" }

\* The call of main() on worker w is over.
Ended(w) == pc[w] \in { "done", "failed" }

\* ------------------------------------------------------------------- C1
\* C1: for every language L of the supported set and every valid contact
\* email, a worker that has run the preset branch holds in args.tasks exactly
\* 5 comma-joined entries, in the order ARC-Easy, ARC-Challenge, Hellaswag,
\* Boolq, MMLU, each equal to indiceval|<benchmark>:L|5|0.
C1_PresetExpandsToFiveEntries ==
    \A w \in Procs :
        ( /\ PresetRun
          /\ args.language \in { "kannada", "hindi", "tamil", "telugu", "gujarati",
                                 "marathi", "malayalam", "english" }
          /\ is_valid_email(args.push_to_leaderboard)
          /\ PastSelect(w) )
        =>
        LET entries == SplitOn(args_tasks[w], ",")
            names == << "ARC-Easy", "ARC-Challenge", "Hellaswag", "Boolq", "MMLU" >>
        IN  /\ Len(entries) = 5
            /\ \A i \in 1..5 :
                 entries[i] = << "indiceval", "|", names[i], ":", args.language,
                                 "|", "5", "|", "0" >>

\* A worker has rewritten args.tasks for telugu.
C1_Witness ==
    \E w \in Procs :
        /\ PresetRun
        /\ args.language = "telugu"
        /\ is_valid_email(args.push_to_leaderboard)
        /\ pc[w] = "get_task_dict"
        /\ args_tasks[w] # LeaderboardSentinel

\* ------------------------------------------------------------------- C2
\* C2 as stated: with a language outside the supported set, a preset run
\* fails with a validation error, and the failing worker has called none of
\* load_model, Registry.get_task_dict and load_datasets.
C2_NoLoadingBeforeLanguageError ==
    \A w \in Procs :
        ( PresetRun /\ ~LanguageSupported(args.language) /\ PastSelect(w) )
        =>
        /\ pc[w] = "failed"
        /\ err[w] \in ValidationErrors
        /\ ~Called(w, "load_model")
        /\ ~Called(w, "get_task_dict")
        /\ ~Called(w, "load_datasets")

\* C2 as amended: with a language outside the supported set, a worker that
\* reaches the preset branch fails there with a validation error; it has
\* called load_model once (lines 78-81 run first) and has called neither
\* Registry.get_task_dict nor load_datasets.
C2_NoTaskLoadingBeforeLanguageError ==
    \A w \in Procs :
        ( PresetRun /\ ~LanguageSupported(args.language) /\ PastSelect(w) )
        =>
        /\ pc[w] = "failed"
        /\ err[w] \in ValidationErrors
        /\ Count(calls[w], "load_model") = 1
        /\ ~Called(w, "get_task_dict")
        /\ ~Called(w, "load_datasets")
        /\ args_tasks[w] = LeaderboardSentinel

\* A worker has failed on the language check, after loading the model.
C2_Witness ==
    \E w \in Procs :
        /\ PresetRun
        /\ args.language = "bengali"
        /\ pc[w] = "failed"
        /\ err[w] = "ValueError: language"
        /\ Called(w, "load_model")

\* ------------------------------------------------------------------- C3
\* C3: a preset run with a supported language and a valid email resolves the
\* 5 expanded tasks through the registry, evaluates them, and its coordinating
\* worker calls push_to_leaderboard exactly once, with the dict that
\* generate_final_dict produced.
C3_PresetRunPushesOnce ==
    \A w \in Procs :
        ( /\ PresetRun
          /\ LanguageSupported(args.language)
          /\ is_valid_email(args.push_to_leaderboard)
          /\ IsMainProcess(w)
          /\ Ended(w) )
        =>
        /\ pc[w] = "done"
        /\ Count(calls[w], "get_task_dict") = 1
        /\ Len(task_dict[w]) = 5
        /\ Count(calls[w], "evaluate") = 1
        /\ Count(calls[w], "generate_final_dict") = 1
        /\ Count(calls[w], "push_to_leaderboard") = 1
        /\ push_arg[w] = final_dict[w]

\* ------------------------------------------------------------------- C4
\* C4: with a contact email that is given but has not the shape of an email,
\* a preset run fails at the preset expansion, and a run with another
\* selector whose coordinating worker reaches the leaderboard-push stage
\* fails there and never calls push_to_leaderboard. (An email that is not
\* given at all is the case of the skipped push, not of this claim.)
C4_InvalidEmailFailsBothPaths ==
    \A w \in Procs :
        ( Truthy(args.push_to_leaderboard) /\ ~is_valid_email(args.push_to_leaderboard) )
        =>
        /\ ~Called(w, "push_to_leaderboard")
        /\ ( PresetRun /\ PastSelect(w) )
              => ( /\ pc[w] = "failed"
                   /\ err[w] = "ValueError: email"
                   /\ args_tasks[w] = LeaderboardSentinel
                   /\ ~Called(w, "get_task_dict") )
        /\ ( ~PresetRun /\ IsMainProcess(w) )
              => ( /\ pc[w] \notin { "model_cleanup", "return", "done" }
                   /\ ( Called(w, "generate_final_dict")
                        /\ pc[w] \notin { "clean_up", "push_to_leaderboard" } )
                          => ( pc[w] = "failed" /\ err[w] = "ValueError: email" ) )

\* The coordinating worker of a run with another selector has failed at the
\* push stage, on an email without "@".
C4_Witness ==
    \E w \in Procs :
        /\ ~PresetRun
        /\ args.push_to_leaderboard = << "user", "example", ".", "com" >>
        /\ IsMainProcess(w)
        /\ Called(w, "generate_final_dict")
        /\ pc[w] = "failed"
        /\ err[w] = "ValueError: email"

\* ------------------------------------------------------------------- C5
\* C5: in a multi-worker run no worker other than the coordinating one ever
\* calls log_end_time, the metrics or details aggregate, save,
\* generate_final_dict, the removal of a temporary directory,
\* push_to_leaderboard or the model's cleanup.
C5_OnlyCoordinatorFinalizes ==
    MultiWorker =>
        \A w \in Procs : \A i \in 1..Len(calls[w]) :
            calls[w][i] \in FinalizationCalls => w = 0

\* A peer has returned while the coordinator has run the whole finalization.
C5_Witness ==
    /\ MultiWorker
    /\ \E v \in Procs : v # 0 /\ pc[v] = "done" /\ Called(v, "evaluate")
    /\ Called(0, "log_end_time")
    /\ Called(0, "save")
    /\ Called(0, "rmtree delta-applied")
    /\ Called(0, "push_to_leaderboard")
    /\ Called(0, "model.cleanup")

\* ------------------------------------------------------------------- C6
\* C6: in a multi-worker run, whenever a worker is at or past the evaluate
\* call, every worker of the group has seeded both generators with 1234.
C6_NoEvaluationBeforeAllSeeded ==
    MultiWorker =>
        \A w \in Procs :
            ( pc[w] = "evaluate" \/ Called(w, "evaluate") )
            => \A v \in Procs : random_state[v] = 1234 /\ np_state[v] = 1234

\* One worker has evaluated while another, seeded, has not yet left the barrier.
C6_Witness ==
    /\ MultiWorker
    /\ \E w, v \in Procs :
         /\ Called(w, "evaluate")
         /\ pc[v] = "seeds_wait"
         /\ random_state[v] = 1234

\* ------------------------------------------------------------------- C7
\* C7 as stated: two calls of main with the same configuration produce the
\* same request ordering whatever state their generators start in. The
\* workers of a group are such calls: each is a process of its own, with the
\* same args and generators of its own.
C7_SameRequestOrderings ==
    \A w, v \in Procs :
        ( Called(w, "create_requests_from_tasks") /\ Called(v, "create_requests_from_tasks") )
        => requests[w] = requests[v]

\* C7 as amended: the seed 1234 governs the randomness consumed from the
\* evaluation stage on: every call of main reaches evaluate with both
\* generators in the state seeded by 1234, whatever state they started in. The
\* requests are built before the seeding, with the generators as the call
\* found them.
C7_SeedGovernsEvaluationOnly ==
    \A w \in Procs :
        /\ ( pc[w] = "evaluate" \/ Called(w, "evaluate") )
              => ( random_state[w] = 1234 /\ np_state[w] = 1234 )
        /\ Called(w, "create_requests_from_tasks")
              => ( /\ build_rng[w][1] \in UnseededStates
                   /\ build_rng[w][2] \in UnseededStates )

\* Two workers built their requests in different orders and both went on to
\* evaluate with the seeded generators.
C7_Witness ==
    \E w, v \in Procs :
        /\ Called(w, "evaluate")
        /\ Called(v, "evaluate")
        /\ requests[w] # requests[v]
        /\ random_state[w] = 1234 /\ random_state[v] = 1234

\* ------------------------------------------------------------------- C8
\* C8 as stated: every call of main that ends without an error, on any
\* worker, returns the dict produced by generate_final_dict.
C8_EveryWorkerReturnsFinalDict ==
    \A w \in Procs :
        pc[w] = "done" =>
            /\ Called(w, "generate_final_dict")
            /\ retval[w] = ReturnedDict(final_dict[w])

\* C8 as amended: a call of main that ends without an error returns the dict
\* produced by generate_final_dict on the coordinating worker (and in a run
\* without accelerator); on every other worker of a multi-worker run it
\* returns None.
C8_CoordinatorReturnsFinalDict ==
    \A w \in Procs :
        pc[w] = "done" =>
            IF accel /\ w # 0
            THEN retval[w] = ReturnedNone /\ ~Called(w, "generate_final_dict")
            ELSE /\ Count(calls[w], "generate_final_dict") = 1
                 /\ retval[w] = ReturnedDict(final_dict[w])
                 /\ Len(final_dict[w]) > 0

\* Both kinds of return in one run.
C8_Witness ==
    /\ MultiWorker
    /\ pc[0] = "done" /\ retval[0].kind = "dict"
    /\ \E v \in Procs : v # 0 /\ pc[v] = "done" /\ retval[v].kind = "None"

\* ------------------------------------------------------------------- C9
\* C9: in a run with another selector than the preset and an output
\* directory (no leaderboard email, no temporary weights), once the
\* coordinating worker has evaluated and its call is over, it has called save
\* once, after the metrics and details aggregation, the output directory holds
\* a results artifact, and the call has returned the dict of
\* generate_final_dict.
C9_SavePersistsThenReturns ==
    \A w \in Procs :
        ( /\ ~PresetRun
          /\ Truthy(args.output_dir)
          /\ ~Truthy(args.push_to_leaderboard)
          /\ ~args.delta_weights /\ ~args.adapter_weights
          /\ IsMainProcess(w)
          /\ Called(w, "evaluate")
          /\ Ended(w) )
        =>
        /\ pc[w] = "done"
        /\ Count(calls[w], "save") = 1
        /\ FirstIndex(calls[w], "details_aggregate") < FirstIndex(calls[w], "save")
        /\ FirstIndex(calls[w], "metrics_aggregate") < FirstIndex(calls[w], "save")
        /\ FirstIndex(calls[w], "save") < FirstIndex(calls[w], "generate_final_dict")
        /\ args.output_dir \in artifacts
        /\ retval[w] = ReturnedDict(final_dict[w])

\* ------------------------------------------------------------------ C10
\* C10 as stated: when reuse is not requested and the model was loaded, the
\* coordinating worker has called the model's cleanup exactly once when its
\* call of main is over, by a return or by a failure after the finalization
\* started; when reuse is requested, cleanup is never called. (Stated for
\* the runs without an output directory, in which save is not called.)
C10_CleanupOnEveryExit ==
    \A w \in Procs :
        IsMainProcess(w) =>
            /\ args.reuse_existing => ~Called(w, "model.cleanup")
            /\ ( /\ ~args.reuse_existing
                 /\ ~Truthy(args.output_dir)
                 /\ Called(w, "load_model")
                 /\ Called(w, "log_end_time")
                 /\ Ended(w) )
                  => Count(calls[w], "model.cleanup") = 1

\* C10 as amended: when reuse is not requested, the coordinating worker has
\* called the model's cleanup exactly once when its call of main returns; a
\* call of main that fails has not called it; when reuse is requested,
\* cleanup is never called.
C10_CleanupOnReturnOnly ==
    \A w \in Procs :
        IsMainProcess(w) =>
            /\ args.reuse_existing => ~Called(w, "model.cleanup")
            /\ ( ~args.reuse_existing /\ pc[w] = "done" )
                  => Count(calls[w], "model.cleanup") = 1
            /\ pc[w] = "failed" => ~Called(w, "model.cleanup")
            /\ Count(calls[w], "model.cleanup") <= 1

\* The coordinator has returned after one cleanup.
C10_Witness ==
    \E w \in Procs :
        /\ IsMainProcess(w)
        /\ ~args.reuse_existing
        /\ pc[w] = "done"
        /\ Count(calls[w], "model.cleanup") = 1

\* ------------------------------------------------------------------ C11
\* Positions before the body of the model-loading region, and before the body
\* of the task-loading region.
BeforeModelBody == { "start", "max_samples", "model_first", "model_first_wait" }

BeforeTasksBody ==
    BeforeModelBody \cup { "load_model", "model_first_exit",
                           "model_first_exit_wait", "tasks_first", "tasks_first_wait" }

\* Worker w has left the body of the model-loading (task-loading) region.
FinishedModelRegion(w) ==
    pc[w] \notin BeforeModelBody \cup { "load_model", "model_first_exit" }
        /\ Called(w, "load_model")

FinishedTasksRegion(w) ==
    pc[w] \notin BeforeTasksBody \cup { "select_tasks", "get_task_dict", "load_datasets",
                                        "create_requests", "tasks_first_exit" }
        /\ Called(w, "create_requests_from_tasks")

\* No peer is in or past the body of a region the coordinator has not finished.
CoordinatorFirst ==
    MultiWorker =>
        \A v \in Procs \ { 0 } :
            /\ ( pc[v] \notin BeforeModelBody /\ err[v] # "TimeoutError: barrier" )
                  => FinishedModelRegion(0)
            /\ ( pc[v] \notin BeforeTasksBody /\ err[v] # "TimeoutError: barrier" )
                  => FinishedTasksRegion(0)

\* C11: in a multi-worker run no other worker starts load_model (task
\* resolution, dataset loading, request building) until the coordinating
\* worker has finished the model-loading (task-loading) region, and once the
\* coordinator has finished a region every peer eventually goes through it.
C11_MainProcessFirst ==
    /\ []CoordinatorFirst
    /\ ( MultiWorker /\ FinishedModelRegion(0) )
          ~> ( \A v \in Procs : FinishedModelRegion(v) )
    /\ ( MultiWorker /\ FinishedTasksRegion(0) )
          ~> ( \A v \in Procs : FinishedTasksRegion(v) )

\* A peer is building its requests after the coordinator has left the region.
C11_Witness ==
    /\ MultiWorker
    /\ FinishedTasksRegion(0)
    /\ \E v \in Procs \ { 0 } : pc[v] = "create_requests" /\ Called(v, "load_model")

\* ------------------------------------------------------------------ C12
\* Positions after the seeding of lines 119-121.
AfterSeeds ==
    { "wait_for_everyone", "seeds_wait", "evaluate", "is_main_process",
      "aggregate", "save", "generate_final_dict", "clean_up",
      "push_to_leaderboard", "model_cleanup", "return", "done" }

\* Worker w has run lines 119-121.
Seeded(w) == pc[w] \in AfterSeeds \/ Called(w, "evaluate")

\* C12: on every worker, load_model, get_task_dict and load_datasets have
\* returned, in this order, before create_requests_from_tasks is called; the
\* seeding comes after all four and before evaluate; every worker that has
\* seeded holds both generators in the state of the seed 1234.
C12_StageOrder ==
    \A w \in Procs :
        /\ ( pc[w] = "create_requests" \/ Called(w, "create_requests_from_tasks") )
              => ( /\ 0 < FirstIndex(calls[w], "load_model")
                   /\ FirstIndex(calls[w], "load_model")
                        < FirstIndex(calls[w], "get_task_dict")
                   /\ FirstIndex(calls[w], "get_task_dict")
                        < FirstIndex(calls[w], "load_datasets")
                   /\ { "model", "task_dict" } \subseteq assigned[w] )
        /\ Called(w, "create_requests_from_tasks")
              => FirstIndex(calls[w], "load_datasets")
                   < FirstIndex(calls[w], "create_requests_from_tasks")
        /\ Seeded(w)
              => ( /\ Called(w, "load_model")
                   /\ Called(w, "create_requests_from_tasks")
                   /\ random_state[w] = 1234
                   /\ np_state[w] = 1234 )
        /\ ~Seeded(w)
              => ( /\ random_state[w] # 1234
                   /\ np_state[w] # 1234
                   /\ pc[w] # "evaluate" )

\* Two workers have seeded after building their requests; none has evaluated.
C12_Witness ==
    /\ MultiWorker
    /\ \A w \in Procs :
         /\ pc[w] = "seeds_wait"
         /\ random_state[w] = 1234
         /\ Called(w, "create_requests_from_tasks")

\* ------------------------------------------------------------------ C13
\* C13: push_to_leaderboard is called at most once in a run, only by the
\* coordinating worker, only with a contact email that is given and passes
\* the email-shape check, and only after generate_final_dict; with no contact
\* email the push is skipped and the coordinator's call does not fail at the
\* push stage.
C13_PushGuarded ==
    /\ Cardinality({ w \in Procs : Called(w, "push_to_leaderboard") }) <= 1
    /\ \A w \in Procs :
         /\ Count(calls[w], "push_to_leaderboard") <= 1
         /\ Called(w, "push_to_leaderboard")
               => ( /\ IsMainProcess(w)
                    /\ Truthy(args.push_to_leaderboard)
                    /\ is_valid_email(args.push_to_leaderboard)
                    /\ 0 < FirstIndex(calls[w], "generate_final_dict")
                    /\ FirstIndex(calls[w], "generate_final_dict")
                         < FirstIndex(calls[w], "push_to_leaderboard")
                    /\ push_arg[w] = final_dict[w] )
         /\ ( ~Truthy(args.push_to_leaderboard) /\ Called(w, "generate_final_dict") )
               => ( /\ ~Called(w, "push_to_leaderboard")
                    /\ pc[w] # "failed" )

\* A push made by the coordinator of a multi-worker run, which then returned.
C13_Witness ==
    /\ MultiWorker
    /\ \E w \in Procs :
         /\ Count(calls[w], "push_to_leaderboard") = 1
         /\ pc[w] = "done"

\* The push stage skipped: the coordinator has returned with no email given.
C13_SkipReached ==
    \E w \in Procs :
        /\ ~Truthy(args.push_to_leaderboard)
        /\ Called(w, "generate_final_dict")
        /\ pc[w] = "done"

IsPrefix(s, t) == Len(s) <= Len(t) /\ SubSeq(t, 1, Len(s)) = s

\* C15: on each worker one EvaluationTracker is constructed, and what it
\* holds only grows: no step of main() removes or replaces a contribution
\* logged before (model info, task configuration, document counts, responses,
\* end time, metrics, details), and the dict of generate_final_dict is made
\* from the tracker that holds the contributions of all earlier stages.
C15_TrackerGrowsMonotonically ==
    /\ [][ \A w \in Procs : IsPrefix(tracker[w], tracker'[w]) ]_vars
    /\ [] ( \A w \in Procs :
              /\ Count(calls[w], "EvaluationTracker") <= 1
              /\ Called(w, "generate_final_dict")
                    => ( /\ IsPrefix(<< "args_info", "model_info", "task_config",
                                       "num_docs", "responses", "end_time",
                                       "metrics", "details" >>, final_dict[w])
                         /\ IsPrefix(final_dict[w], tracker[w]) ) )

\* The finalized tracker holds every stage's contribution.
C15_Witness ==
    \E w \in Procs :
        /\ Called(w, "generate_final_dict")
        /\ Len(final_dict[w]) = 8
        /\ Count(calls[w], "EvaluationTracker") = 1

\* ------------------------------------------------------------------ C16
\* The calls of lines 99-116.
TaskLoadingCalls == { "get_task_dict", "load_datasets", "create_requests_from_tasks" }

\* C16: on the preset path args.tasks is rewritten only after the email check
\* and the language check have both passed. A worker on which either check
\* failed still holds the sentinel in args.tasks and has made no registry
\* lookup, no dataset loading and no request building; a worker whose
\* args.tasks no longer holds the sentinel has a valid email and a supported
\* language.
C16_RewriteOnlyAfterBothChecks ==
    \A w \in Procs :
        /\ (PresetRun /\ err[w] \in ValidationErrors)
              => /\ args_tasks[w] = LeaderboardSentinel
                 /\ \A c \in TaskLoadingCalls : ~Called(w, c)
        /\ (PresetRun /\ args_tasks[w] # LeaderboardSentinel)
              => /\ is_valid_email(args.push_to_leaderboard)
                 /\ LanguageSupported(args.language)

\* The email check passed and the language check failed.
C16_Witness ==
    \E w \in Procs :
        /\ PresetRun
        /\ err[w] = "ValueError: language"
        /\ is_valid_email(args.push_to_leaderboard)
        /\ args_tasks[w] = LeaderboardSentinel

\* ------------------------------------------------------------------ C17
AllEnded == \A w \in Procs : Ended(w)

\* C17: in a multi-worker run every worker eventually terminates, by
\* returning or by failing. In particular, once the coordinating worker has
\* raised a validation error inside the task-loading region, every peer
\* eventually leaves the region's entry and every barrier: its call of main()
\* ends too.
C17_EveryWorkerTerminates ==
    /\ MultiWorker ~> AllEnded
    /\ (MultiWorker /\ err[0] \in ValidationErrors)
          ~> (\A v \in Procs : pc[v] \notin BarrierLabels /\ Ended(v))

\* The coordinator failed a check of the preset branch, and the wait of a
\* peer at the entry of the region was ended by the timeout.
C17_Witness ==
    /\ MultiWorker
    /\ err[0] \in ValidationErrors
    /\ \E v \in Procs : v # 0 /\ err[v] = "TimeoutError: barrier"
    /\ AllEnded

\* ------------------------------------------------------------------ C18
\* Call a comes ahead of call b in the calls of worker w (both were made).
CalledBefore(w, a, b) ==
    /\ Called(w, a) /\ Called(w, b)
    /\ FirstIndex(calls[w], a) < FirstIndex(calls[w], b)

\* Worker w has gone through lines 151-159.
PastCleanUp(w) == Called(w, "generate_final_dict") /\ pc[w] # "clean_up"

\* The removal call named r, made under the option flag, is made by the
\* coordinator only, at most once and exactly once by a call of main() that
\* has gone through lines 151-159, after the aggregation, the save (made when
\* output_dir is given) and generate_final_dict, and ahead of the push.
RemovedOnceInOrder(w, r, flag) ==
    /\ Count(calls[w], r) <= 1
    /\ PastCleanUp(w) => Count(calls[w], r) = (IF flag THEN 1 ELSE 0)
    /\ Called(w, r)
          => /\ flag /\ IsMainProcess(w)
             /\ CalledBefore(w, "metrics_aggregate", r)
             /\ CalledBefore(w, "details_aggregate", r)
             /\ CalledBefore(w, "generate_final_dict", r)
             /\ Truthy(args.output_dir) => CalledBefore(w, "save", r)
             /\ Called(w, "push_to_leaderboard") => CalledBefore(w, r, "push_to_leaderboard")
    /\ (Called(w, "push_to_leaderboard") /\ flag) => Called(w, r)

\* C18: with delta_weights (adapter_weights) set the coordinating worker
\* removes <model_name>-delta-applied (<model_name>-adapter-applied) exactly
\* once, after metrics aggregation, the optional save and generate_final_dict
\* and before the leaderboard push; with neither set nothing is removed.
C18_TempDirsRemovedOnceInOrder ==
    \A w \in Procs :
        /\ RemovedOnceInOrder(w, "rmtree delta-applied", args.delta_weights)
        /\ RemovedOnceInOrder(w, "rmtree adapter-applied", args.adapter_weights)

\* Both modes set, results saved, both directories removed, then the push.
C18_Witness ==
    /\ args.delta_weights /\ args.adapter_weights
    /\ pc[0] = "done"
    /\ CalledBefore(0, "save", "rmtree delta-applied")
    /\ CalledBefore(0, "rmtree delta-applied", "rmtree adapter-applied")
    /\ CalledBefore(0, "rmtree adapter-applied", "push_to_leaderboard")

\* Neither mode set: the coordinator returns having removed nothing.
C18_NothingRemovedReached ==
    /\ ~args.delta_weights /\ ~args.adapter_weights
    /\ pc[0] = "done" /\ retval[0].kind = "dict"
    /\ ~Called(0, "rmtree delta-applied") /\ ~Called(0, "rmtree adapter-applied")

\* ------------------------------------------------------------------ C19
\* The calls the finalization stage makes under the options of the run.
ExpectedFinalization ==
    { "log_end_time", "metrics_aggregate", "details_aggregate",
      "generate_final_dict" }
        \cup (IF ~args.reuse_existing THEN { "model.cleanup" } ELSE { })
        \cup (IF Truthy(args.output_dir) THEN { "save" } ELSE { })
        \cup (IF args.delta_weights THEN { "rmtree delta-applied" } ELSE { })
        \cup (IF args.adapter_weights THEN { "rmtree adapter-applied" } ELSE { })
        \cup (IF Truthy(args.push_to_leaderboard) THEN { "push_to_leaderboard" } ELSE { })

\* C19: without an accelerator (the handle is None) the sole process is the
\* coordinating worker: it never enters a barrier or a main-process-first
\* wait, never leaves main() at line 136 with None, and a call that returns
\* has made every call of the finalization stage that its options ask for
\* (each once) and returns the dict of generate_final_dict.
C19_SoleProcessIsCoordinator ==
    ~accel =>
        /\ Procs = { 0 }
        /\ IsMainProcess(0)
        /\ arrived[0] = 0
        /\ pc[0] \notin BarrierLabels
        /\ err[0] # "TimeoutError: barrier"
        /\ retval[0] # ReturnedNone
        /\ pc[0] = "done"
              => /\ retval[0] = ReturnedDict(final_dict[0])
                 /\ Called(0, "evaluate")
                 /\ \A c \in FinalizationCalls :
                        Count(calls[0], c) = (IF c \in ExpectedFinalization THEN 1 ELSE 0)

\* A single-process call with results saved and pushed has returned its dict.
C19_Witness ==
    /\ ~accel
    /\ pc[0] = "done"
    /\ retval[0] = ReturnedDict(final_dict[0])
    /\ Len(final_dict[0]) = 8
    /\ Called(0, "save")
    /\ Called(0, "push_to_leaderboard")

====
